---- MODULE Spec2Model ----
(***************************************************************************)
(* Model of the Discord activity tracker. Read side (src/api.py): the      *)
(* login / token guard, the daily activity matrix and the time-of-day      *)
(* activity curve. Write side (src/main.py, src/db.py): process start, the *)
(* gateway handlers on_ready and on_voice_state_update, the presence       *)
(* counter and the shutdown hook. Both over the store of src/models.py.    *)
(***************************************************************************)
EXTENDS Integers, Sequences, FiniteSets, TLC

VARIABLES
    active_tokens,  \* api.py:34, the process-wide set of issued tokens
    returned,       \* history: tokens that a login response has carried
    users,          \* table "user": the set of handles
    channels,       \* table "channel": id -> is_afk
    events,         \* table "event": set of rows [id, prevChannel, nextChannel, timestamp, user]
    req,            \* the last operation run: a request, or a write to the store
    resp,           \* the response to it
    dtIn,           \* argument of the rounding helpers
    dtFloor,        \* floor_to_10_minutes(dtIn)
    dtCeil,         \* ceil_to_10_minutes(dtIn)
    aliases,        \* table "alias": set of rows <<name, handle>>
    active_users,   \* main.py:52, the in-memory presence counter
    voice,          \* the guild: member -> the voice channel the member is connected to
    afk_channel,    \* the guild: guild.afk_channel
    guild_channels, \* the guild: the ids of guild.channels
    phase,          \* the tracker process: "down", "offline" (running, no gateway session), "ready",
                    \* or "failed" (ready, the database session inactive after a failed write)
    clock,          \* datetime.datetime.now(), in ticks since the process was first started
    started         \* the services main() has started

vars ==
    <<active_tokens, returned, users, channels, events, req, resp, dtIn, dtFloor, dtCeil,
      aliases, active_users, voice, afk_channel, guild_channels, phase, clock, started>>

----------------------------------------------------------------------------
(* Optional values: Python's None is the empty tuple, a value x is <<x>>.  *)

None == <<>>
Some(x) == <<x>>
IsNone(o) == o = <<>>
Val(o) == o[1]

----------------------------------------------------------------------------
(* Bounds of the model.                                                    *)

\* rows of table "event" the store holds at most
MaxEvents == 2
\* tokens secrets.token_hex may return in the model
MaxTokens == 2

----------------------------------------------------------------------------
(* datetime.datetime, to the second: [y, mo, d, h, mi, s].                 *)

DT(y, mo, d, h, mi, s) == [y |-> y, mo |-> mo, d |-> d, h |-> h, mi |-> mi, s |-> s]

IsLeap(y) == (y % 4 = 0 /\ y % 100 # 0) \/ y % 400 = 0

DaysInMonth(y, m) ==
    IF m = 2 THEN (IF IsLeap(y) THEN 29 ELSE 28)
    ELSE IF m \in {4, 6, 9, 11} THEN 30 ELSE 31

\* datetime.date(y, m, d) raises ValueError outside MINYEAR..MAXYEAR
DateOk(y, m, d) ==
    /\ y >= 1 /\ y <= 9999
    /\ m >= 1 /\ m <= 12
    /\ d >= 1 /\ d <= DaysInMonth(y, m)

Date(y, m, d) == [y |-> y, mo |-> m, d |-> d]
DateOf(dt) == Date(dt.y, dt.mo, dt.d)

\* date + timedelta(days=1)
NextDay(dd) ==
    IF dd.d < DaysInMonth(dd.y, dd.mo) THEN Date(dd.y, dd.mo, dd.d + 1)
    ELSE IF dd.mo < 12 THEN Date(dd.y, dd.mo + 1, 1)
    ELSE Date(dd.y + 1, 1, 1)

DateLt(a, b) ==
    \/ a.y < b.y
    \/ a.y = b.y /\ a.mo < b.mo
    \/ a.y = b.y /\ a.mo = b.mo /\ a.d < b.d

SecOfDay(dt) == dt.h * 3600 + dt.mi * 60 + dt.s

DtLt(a, b) ==
    \/ DateLt(DateOf(a), DateOf(b))
    \/ DateOf(a) = DateOf(b) /\ SecOfDay(a) < SecOfDay(b)

DtLe(a, b) == a = b \/ DtLt(a, b)

\* dt + timedelta(minutes=n), for 0 <= n <= 1440
AddMinutes(dt, n) ==
    LET t    == SecOfDay(dt) + n * 60
        roll == t >= 86400
        tt   == IF roll THEN t - 86400 ELSE t
        dd   == IF roll THEN NextDay(DateOf(dt)) ELSE DateOf(dt)
    IN DT(dd.y, dd.mo, dd.d, tt \div 3600, (tt \div 60) % 60, tt % 60)

\* math.ceil(minute / 10) for a minute of 0..59
CeilDiv10(m) == (m + 9) \div 10

\* dt.replace(minute=m, second=0, microsecond=0)
ReplaceMinute(dt, m) == DT(dt.y, dt.mo, dt.d, dt.h, m, 0)

floor_to_10_minutes(dt) == ReplaceMinute(dt, (dt.mi \div 10) * 10)

ceil_to_10_minutes(dt) ==
    LET m == CeilDiv10(dt.mi) * 10
    IN IF m = 60 THEN AddMinutes(ReplaceMinute(dt, 0), 60)
       ELSE ReplaceMinute(dt, m)

----------------------------------------------------------------------------
(* Authentication (api.py:34, 76-78, 363-373).                             *)

\* values secrets.token_hex(32) may return
Tokens == 1..MaxTokens

\* X-Auth header values a client may send: any token value, or 0, a string
\* token_hex never produces; None is a request without the header
HeaderValues == {None} \cup {Some(t) : t \in Tokens \cup {0}}

Passwords == {"hunter2", "hunter2-collision", "guess"}

\* hashlib.md5(password.encode()).hexdigest(); not injective
Md5Hex(p) == IF p \in {"hunter2", "hunter2-collision"} THEN "5f4dcc" ELSE "d41d8c"

\* getenv("MD5_PASSWORD")
MD5_PASSWORD == "5f4dcc"

\* a JSON body's "password": data.get("password") is None when the key is missing
PasswordInputs == {None} \cup {Some(p) : p \in Passwords}

Response(route, status, detail, body) ==
    [route |-> route, status |-> status, detail |-> detail, body |-> body]

\* a guard that only looks for the header
NotAuthorizedHeaderOnly(x_auth, tokens) == IsNone(x_auth)

\* require_auth: x_auth not in active_tokens
NotAuthorized(x_auth, tokens) == IsNone(x_auth) \/ Val(x_auth) \notin tokens

Unauthorized(route) == Response(route, 401, "not authorized", None)

StoreUnchanged == UNCHANGED <<users, channels, events>>
RoundUnchanged == UNCHANGED <<dtIn, dtFloor, dtCeil>>
GuildUnchanged == UNCHANGED <<voice, afk_channel, guild_channels>>
IngestUnchanged == UNCHANGED <<aliases, active_users, phase, clock, started>>

\* a login that keeps one session: the new token replaces the set
loginSingleSession(tokens, password, token) ==
    IF IsNone(password)
    THEN [tokens |-> tokens,
          resp   |-> Response("login", 500, "Internal Server Error", None)]
    ELSE IF Md5Hex(Val(password)) = MD5_PASSWORD
    THEN [tokens |-> {token},
          resp   |-> Response("login", 200, "", Some(token))]
    ELSE [tokens |-> tokens,
          resp   |-> Response("login", 401, "wrong password", None)]

\* a login that mints the token before it compares the digests
loginMintFirst(tokens, password, token) ==
    IF IsNone(password)
    THEN [tokens |-> tokens,
          resp   |-> Response("login", 500, "Internal Server Error", None)]
    ELSE IF Md5Hex(Val(password)) = MD5_PASSWORD
    THEN [tokens |-> tokens \cup {token},
          resp   |-> Response("login", 200, "", Some(token))]
    ELSE [tokens |-> tokens \cup {token},
          resp   |-> Response("login", 401, "wrong password", None)]

\* login(): the response and the token set the handler leaves, `token` being
\* what secrets.token_hex(32) returns if it is called
login(tokens, password, token) ==
    IF IsNone(password)
    THEN \* None.encode() raises AttributeError; no handler catches it: 500
         [tokens |-> tokens,
          resp   |-> Response("login", 500, "Internal Server Error", None)]
    ELSE IF Md5Hex(Val(password)) = MD5_PASSWORD
    THEN [tokens |-> tokens \cup {token},
          resp   |-> Response("login", 200, "", Some(token))]
    ELSE [tokens |-> tokens,
          resp   |-> Response("login", 401, "wrong password", None)]

\* POST /api/login
Login(password, token) ==
    LET r == login(active_tokens, password, token)
    IN /\ req' = [route |-> "login", password |-> password]
       /\ active_tokens' = r.tokens
       /\ resp' = r.resp
       /\ returned' = IF r.resp.status = 200
                      THEN returned \cup {Val(r.resp.body)} ELSE returned
       /\ StoreUnchanged /\ RoundUnchanged /\ GuildUnchanged /\ IngestUnchanged

\* GET /api/health
health_check ==
    /\ req' = [route |-> "health"]
    /\ resp' = Response("health", 200, "", Some("healthy"))
    /\ UNCHANGED <<active_tokens, returned>>
    /\ StoreUnchanged /\ RoundUnchanged /\ GuildUnchanged /\ IngestUnchanged

----------------------------------------------------------------------------
(* The event store (models.py:103-133) and the rows written to it.         *)

\* Event.id > 3941 in every query of the curve
LegacyCutoff == 3941

\* len(final_buckets): 24 hours of six 10-minute slots
SlotCount == 144

Row(id, prev, nxt, ts, user) ==
    [id |-> id, prevChannel |-> prev, nextChannel |-> nxt, timestamp |-> ts, user |-> user]

\* primary keys of the rows the model stores: the last legacy id and the two after it
EventIds == LegacyCutoff .. (LegacyCutoff + 2)

\* add(Event): the row is committed at once; id is the primary key
RecordEvent(e) ==
    /\ Cardinality(events) < MaxEvents
    /\ e.id \notin {x.id : x \in events}
    /\ IF IsNone(e.user) THEN TRUE ELSE Val(e.user) \in users
    /\ events' = events \cup {e}
    /\ req' = [route |-> "add"]
    /\ resp' = Response("add", 0, "", None)
    /\ UNCHANGED <<active_tokens, returned, users, channels>>
    /\ RoundUnchanged /\ GuildUnchanged /\ IngestUnchanged

----------------------------------------------------------------------------
(* Time-of-day activity curve (api.py:213-353).                            *)

\* a query string: absent (None), "", something fromisoformat rejects, or
\* the ISO 8601 text of a datetime
IsoText(dt) == Some([kind |-> "iso", dt |-> dt])
JunkText == Some([kind |-> "junk"])
EmptyText == Some([kind |-> "empty"])

\* `if start:` is false for None and for ""
Given(q) == ~IsNone(q) /\ Val(q).kind # "empty"

\* datetime.fromisoformat raises ValueError on junk
ParseFails(q) == Given(q) /\ Val(q).kind = "junk"
Parsed(q) == IF Given(q) THEN Some(Val(q).dt) ELSE None

\* the queries without the id filter
SelectEventsAnyId(evts, start_dt, end_dt) ==
    {e \in evts :
        /\ IsNone(start_dt) \/ DtLe(Val(start_dt), e.timestamp)
        /\ IsNone(end_dt) \/ DtLe(e.timestamp, Val(end_dt))}

\* the four queries of lines 247-262
SelectEvents(evts, start_dt, end_dt) ==
    {e \in evts :
        /\ e.id > LegacyCutoff
        /\ IsNone(start_dt) \/ DtLe(Val(start_dt), e.timestamp)
        /\ IsNone(end_dt) \/ DtLe(e.timestamp, Val(end_dt))}

is_afk(chs, channel_id) ==
    IF IsNone(channel_id) THEN FALSE
    ELSE IF Val(channel_id) \in DOMAIN chs THEN chs[Val(channel_id)] ELSE FALSE

\* the loop body of lines 279-300: +1, -1, or 0 for no signal
\* the classification with every stored channel taken as an ordinary one
DeltaAfkBlind(chs, e) ==
    LET prev == e.prevChannel
        nxt  == e.nextChannel
    IN IF ~IsNone(e.user) /\ (prev = Some(-1) \/ nxt = Some(-1)) THEN 0
       ELSE IF IsNone(prev) /\ ~IsNone(nxt) THEN 1
       ELSE IF ~IsNone(prev) /\ IsNone(nxt) THEN -1
       ELSE 0

Delta(chs, e) ==
    LET prev     == e.prevChannel
        nxt      == e.nextChannel
        prev_afk == is_afk(chs, prev)
        next_afk == is_afk(chs, nxt)
    IN IF ~IsNone(e.user) /\ (prev = Some(-1) \/ nxt = Some(-1)) THEN 0
       ELSE IF (IsNone(prev) \/ prev_afk) /\ (~IsNone(nxt) /\ ~next_afk) THEN 1
       ELSE IF (~IsNone(prev) /\ ~prev_afk) /\ (IsNone(nxt) \/ next_afk) THEN -1
       ELSE 0

Signals(chs, selected) == {e \in selected : Delta(chs, e) # 0}

\* line_events.sort(key=timestamp); rows with equal timestamps keep the order
\* the query gave them, here the order of their ids
RECURSIVE SortSignals(_, _)
SortSignals(chs, sigs) ==
    IF sigs = {} THEN <<>>
    ELSE LET first == CHOOSE e \in sigs : \A f \in sigs :
                          \/ DtLt(e.timestamp, f.timestamp)
                          \/ e.timestamp = f.timestamp /\ e.id <= f.id
         IN <<[ts |-> first.timestamp, delta |-> Delta(chs, first)]>>
                \o SortSignals(chs, sigs \ {first})

datetime_to_bucket(dt) == (dt.h * 60 + dt.mi) \div 10

\* the inner while of lines 325-328: <<event_i, active_users>> after it
RECURSIVE Consume(_, _, _, _)
Consume(line, bucket_end, event_i, active) ==
    IF event_i <= Len(line) /\ DtLe(line[event_i].ts, bucket_end)
    THEN Consume(line, bucket_end, event_i + 1, active + line[event_i].delta)
    ELSE <<event_i, active>>

\* a sweep that samples a step before it applies the step's signals
RECURSIVE SweepSampleFirst(_, _, _, _, _, _)
SweepSampleFirst(line, end_time, bucket_start, event_i, active, buckets) ==
    LET bucket_end == AddMinutes(bucket_start, 10)
    IN IF ~DtLe(bucket_end, end_time) THEN buckets
       ELSE LET c == Consume(line, bucket_end, event_i, active)
                b == datetime_to_bucket(bucket_start)
            IN SweepSampleFirst(line, end_time, bucket_end, c[1], c[2],
                                [buckets EXCEPT ![b] = Append(@, active)])

\* the outer while of lines 324-332: final_buckets after it
RECURSIVE Sweep(_, _, _, _, _, _)
Sweep(line, end_time, bucket_start, event_i, active, buckets) ==
    LET bucket_end == AddMinutes(bucket_start, 10)
    IN IF ~DtLe(bucket_end, end_time) THEN buckets
       ELSE LET c == Consume(line, bucket_end, event_i, active)
                b == datetime_to_bucket(bucket_start)
            IN Sweep(line, end_time, bucket_end, c[1], c[2],
                     [buckets EXCEPT ![b] = Append(@, c[2])])

DigitChar(d) == <<"0", "1", "2", "3", "4", "5", "6", "7", "8", "9">>[d + 1]

RECURSIVE Decimal(_)
Decimal(n) == IF n < 10 THEN <<DigitChar(n)>> ELSE Decimal(n \div 10) \o <<DigitChar(n % 10)>>

\* f"{n:02d}" for n >= 0
Fmt02(n) == IF n < 10 THEN <<"0", DigitChar(n)>> ELSE Decimal(n)

\* a label whose hour is computed like the hour field
SlotTimeHourMod(i) == Fmt02(i % 24) \o <<":">> \o Fmt02((i % 6) * 10)

\* f"{i//6:02d}:{(i%6)*10:02d}"
SlotTime(i) == Fmt02(i \div 6) \o <<":">> \o Fmt02((i % 6) * 10)

RECURSIVE SumSeq(_)
SumSeq(q) == IF q = <<>> THEN 0 ELSE Head(q) + SumSeq(Tail(q))

MaxSeq(q) == CHOOSE m \in {q[k] : k \in 1..Len(q)} : \A k \in 1..Len(q) : q[k] <= m

RECURSIVE Gcd(_, _)
Gcd(a, b) == IF b = 0 THEN a ELSE Gcd(b, a % b)

\* the quotient n / d as a fraction in lowest terms, d > 0
Quotient(n, d) ==
    LET g == Gcd(IF n < 0 THEN -n ELSE n, d)
    IN [num |-> n \div g, den |-> d \div g]

\* the TimeSlotData of slot i (lines 333-349)
TimeSlotData(i, samples) ==
    [time         |-> SlotTime(i),
     hour         |-> i % 24,
     minute       |-> (i % 6) * 10,
     averageUsers |-> IF Len(samples) > 0 THEN Quotient(SumSeq(samples), Len(samples))
                      ELSE Quotient(0, 1),
     peakUsers    |-> IF Len(samples) > 0 THEN MaxSeq(samples) ELSE 0]

\* start_time and end_time of lines 309-310
WindowStart(line) == floor_to_10_minutes(line[1].ts)
WindowEnd(line) == ceil_to_10_minutes(line[Len(line)].ts)

\* final_buckets of the sweep over `line`, a non-empty sorted signal list
FinalBuckets(line) ==
    Sweep(line, WindowEnd(line), WindowStart(line), 1, 0,
          [b \in 0..(SlotCount - 1) |-> <<>>])

\* lines 243-350: the list the handler returns
ActivityGraph(evts, chs, start_dt, end_dt) ==
    LET selected == SelectEvents(evts, start_dt, end_dt)
        sigs     == Signals(chs, selected)
        line     == SortSignals(chs, sigs)
        buckets  == FinalBuckets(line)
    IN IF selected = {} THEN <<>>
       ELSE IF sigs = {} THEN <<>>
       ELSE [k \in 1..SlotCount |-> TimeSlotData(k - 1, buckets[k - 1])]

\* get_activity_graph_data, without the guard
GraphResponse(evts, chs, start, end) ==
    IF ParseFails(start)
    THEN Response("graph", 400, "Invalid start date format. Use ISO 8601 format.", None)
    ELSE IF ParseFails(end)
    THEN Response("graph", 400, "Invalid end date format. Use ISO 8601 format.", None)
    ELSE Response("graph", 200, "", ActivityGraph(evts, chs, Parsed(start), Parsed(end)))

\* GET /api/activity/graph
GetActivityGraph(x_auth, start, end) ==
    /\ req' = [route |-> "graph", x_auth |-> x_auth, start |-> start, end |-> end]
    /\ resp' = IF NotAuthorized(x_auth, active_tokens) THEN Unauthorized("graph")
               ELSE GraphResponse(events, channels, start, end)
    /\ UNCHANGED <<active_tokens, returned>>
    /\ StoreUnchanged /\ RoundUnchanged /\ GuildUnchanged /\ IngestUnchanged

----------------------------------------------------------------------------
(* Daily activity matrix (api.py:144-198).                                 *)

\* f"{n:04d}" for n >= 0
Fmt04(n) ==
    IF n < 10 THEN <<"0", "0", "0">> \o Decimal(n)
    ELSE IF n < 100 THEN <<"0", "0">> \o Decimal(n)
    ELSE IF n < 1000 THEN <<"0">> \o Decimal(n)
    ELSE Decimal(n)

\* date.isoformat()
isoformat(dd) == Fmt04(dd.y) \o <<"-">> \o Fmt02(dd.mo) \o <<"-">> \o Fmt02(dd.d)

\* the while loop of lines 160-164
RECURSIVE DatesFrom(_, _)
DatesFrom(current_date, end_date) ==
    IF DateLt(current_date, end_date)
    THEN <<current_date>> \o DatesFrom(NextDay(current_date), end_date)
    ELSE <<>>

\* the count query of lines 179-182
EventCount(evts, handle, dd) ==
    Cardinality({e \in evts : e.user = Some(handle) /\ DateOf(e.timestamp) = dd})

\* a matrix that keeps the users with no event in the month, marked false
ActivityMatrixKeepInactive(evts, usrs, dates) ==
    [key \in {isoformat(dates[k]) : k \in 1..Len(dates)} |->
        LET k == CHOOSE j \in 1..Len(dates) : isoformat(dates[j]) = key
        IN [h \in usrs |-> EventCount(evts, h, dates[k]) > 0]]

\* lines 166-191: the dictionary the handler returns
ActivityMatrix(evts, usrs, dates) ==
    LET active   == {h \in usrs : \E k \in 1..Len(dates) : EventCount(evts, h, dates[k]) > 0}
        inactive == usrs \ active
        full     == [k \in 1..Len(dates) |-> [h \in usrs |-> EventCount(evts, h, dates[k]) > 0]]
        keys     == {isoformat(dates[k]) : k \in 1..Len(dates)}
    IN [key \in keys |->
           LET k == CHOOSE j \in 1..Len(dates) : isoformat(dates[j]) = key
           IN [h \in (usrs \ inactive) |-> full[k][h]]]

\* a handler whose catch-all also catches the validation error
MonthResponseCatchAll(evts, usrs, year, month) ==
    IF ~(1 <= month /\ month <= 12) \/ ~DateOk(year, month, 1)
       \/ (month = 12 /\ ~DateOk(year + 1, 1, 1))
    THEN Response("month", 500, "Internal server error", None)
    ELSE LET start_date == Date(year, month, 1)
             end_date   == IF month = 12 THEN Date(year + 1, 1, 1)
                           ELSE Date(year, month + 1, 1)
         IN Response("month", 200, "",
                     ActivityMatrix(evts, usrs, DatesFrom(start_date, end_date)))

\* get_activity_data_for_month, without the guard
MonthResponse(evts, usrs, year, month) ==
    IF ~(1 <= month /\ month <= 12)
    THEN Response("month", 400, "Invalid month", None)
    ELSE IF ~DateOk(year, month, 1)
    THEN \* datetime.date raises ValueError, caught by `except Exception`
         Response("month", 500, "Internal server error", None)
    ELSE IF month = 12 /\ ~DateOk(year + 1, 1, 1)
    THEN Response("month", 500, "Internal server error", None)
    ELSE LET start_date == Date(year, month, 1)
             end_date   == IF month = 12 THEN Date(year + 1, 1, 1)
                           ELSE Date(year, month + 1, 1)
         IN Response("month", 200, "",
                     ActivityMatrix(evts, usrs, DatesFrom(start_date, end_date)))

\* GET /api/activity/{year}/{month}
GetActivityMonth(x_auth, year, month) ==
    /\ req' = [route |-> "month", x_auth |-> x_auth, year |-> year, month |-> month]
    /\ resp' = IF NotAuthorized(x_auth, active_tokens) THEN Unauthorized("month")
               ELSE MonthResponse(events, users, year, month)
    /\ UNCHANGED <<active_tokens, returned>>
    /\ StoreUnchanged /\ RoundUnchanged /\ GuildUnchanged /\ IngestUnchanged

----------------------------------------------------------------------------
(* Roster (api.py:91-141).  Aliases, pfp and the bot flag are columns the  *)
(* handler copies through; a channel stands for its name.                  *)

\* get_user_channels
UserChannels(evts, chs, handle) ==
    {c \in DOMAIN chs : \E e \in evts :
        e.user = Some(handle) /\ (e.prevChannel = Some(c) \/ e.nextChannel = Some(c))}

\* max of a non-empty set of datetimes
MaxDt(S) == CHOOSE m \in S : \A t \in S : DtLe(t, m)

\* get_last_seen
LastSeen(evts, handle) ==
    LET ts == {e.timestamp : e \in {x \in evts : x.user = Some(handle)}}
    IN IF ts = {} THEN None ELSE Some(MaxDt(ts))

\* get_total_events
TotalEvents(evts, handle) == Cardinality({e \in evts : e.user = Some(handle)})

Roster(evts, chs, usrs) ==
    {[handle      |-> h,
      lastSeen    |-> LastSeen(evts, h),
      totalEvents |-> TotalEvents(evts, h),
      channels    |-> UserChannels(evts, chs, h)] : h \in usrs}

\* GET /api/users
GetUsers(x_auth) ==
    /\ req' = [route |-> "users", x_auth |-> x_auth]
    /\ resp' = IF NotAuthorized(x_auth, active_tokens) THEN Unauthorized("users")
               ELSE Response("users", 200, "", Roster(events, channels, users))
    /\ UNCHANGED <<active_tokens, returned>>
    /\ StoreUnchanged /\ RoundUnchanged /\ GuildUnchanged /\ IngestUnchanged

----------------------------------------------------------------------------
(* The guild as the gateway client reports it (main.py:60-68, 84-85).      *)

\* guild members: two people and a bot
Members == {"alice", "bob", "rob"}

\* member.bot
Bot(m) == m = "rob"

\* guild.channels when the tracker is first started: two voice channels
FirstChannels == {1, 2}

\* a voice channel the guild gets later
LaterChannel == 3

\* guild.afk_channel when the tracker is first started
FirstAfk == Some(2)

\* the voice channels a member connects to: alice uses the two ordinary
\* channels, bob one of them and the AFK channel, the bot one channel
Visits(m) == IF m = "alice" THEN {1, 3} ELSE IF m = "bob" THEN {1, 2} ELSE {1}

\* member.voice.channel: a channel the member connects to, or None
VoiceStates(m) == {None} \cup {Some(c) : c \in Visits(m)}

\* member.display_name: alice changes hers now and then
DisplayNames(m) == IF m = "alice" THEN {"alice", "Ally"} ELSE {m}

\* the display names of all members at one moment
Nicks == {[m \in Members |-> IF m = "alice" THEN n ELSE m] : n \in DisplayNames("alice")}

----------------------------------------------------------------------------
(* Write side: the store operations of src/db.py on the ORM objects of     *)
(* src/models.py, and the gateway handlers of src/main.py.                 *)

\* ticks of the clock the model runs for
MaxClock == 3

\* datetime.datetime.now() at tick n; successive calls return later values
Stamp(n) == AddMinutes(DT(2024, 3, 1, 0, 0, 0), n)

\* the primary key the sequence of table "event" hands out at tick n
NextId(n) == LegacyCutoff + 1 + n

Max(a, b) == IF a >= b THEN a ELSE b

\* Channel(channel): the object a guild channel is stored as
ChannelObj(c, afk) == [id |-> c, is_afk |-> (Some(c) = afk)]

\* get_channel(id): the stored row as an object, or None
get_channel(chs, c) == IF c \in DOMAIN chs THEN Some([id |-> c, is_afk |-> chs[c]]) ELSE None

\* get_user(handle)
get_user(usrs, h) == IF h \in usrs THEN Some(h) ELSE None

\* the rows of table "channel" once the objects objs are persistent
Persist(chs, objs) ==
    [c \in DOMAIN chs \cup {o.id : o \in objs} |->
        IF c \in DOMAIN chs THEN chs[c] ELSE (CHOOSE o \in objs : o.id = c).is_afk]

\* add(obj) for an Event whose relationships were set but whose Channel
\* objects never went through add(): nothing but the event is written
addEventOnly(st, e, objs) == [st EXCEPT !.events = @ \cup {e}]

\* add(obj) for an Event: session.add puts the event and, by the save-update
\* cascade of its relationships, the Channel objects it refers to into the
\* session; session.commit writes them all
addEvent(st, e, objs) ==
    [st EXCEPT !.channels = Persist(@, objs), !.events = @ \cup {e}]

\* user.aliases as display names
AliasNames(als, h) == {a[1] : a \in {x \in als : x[2] = h}}

\* get_user / User(member) / Alias(user, display_name): main.py:70-77 and 99-106
EnsureUser(st, m, name) ==
    LET usrs == IF IsNone(get_user(st.users, m)) THEN st.users \cup {m} ELSE st.users
        names == AliasNames(st.aliases, m)
        als == IF names = {} \/ name \notin names
               THEN st.aliases \cup {<<name, m>>} ELSE st.aliases
    IN [st EXCEPT !.users = usrs, !.aliases = als]

\* the store and the clock as one value the handlers thread through
Store == [users |-> users, aliases |-> aliases, channels |-> channels,
          events |-> events, clock |-> clock, active_users |-> active_users]

\* main.py:108-116: the new value of active_users. prev and nxt are the
\* Channel objects (stored flags), before and after the live channels
Counter(n, bot, prev, nxt, before, after, afk) ==
    IF bot THEN n
    ELSE IF ~IsNone(nxt) /\ (IF IsNone(prev) THEN TRUE ELSE Val(prev).is_afk)
                         /\ ~Val(nxt).is_afk
         THEN n + 1
    ELSE IF IF IsNone(after) THEN TRUE
            ELSE (~IsNone(before) /\ after = afk) /\ before # afk
         THEN Max(0, n - 1)
    ELSE n

\* on_voice_state_update with the early return of main.py:85 left out
VoiceStateUpdateAlways(st, m, name, before, after, afk) ==
    LET st1 == EnsureUser(st, m, name)
        e == Row(NextId(st.clock), before, after, Stamp(st.clock), Some(m))
    IN [st1 EXCEPT !.events = @ \cup {e}, !.clock = @ + 1]

\* on_voice_state_update(member, before, after), main.py:84-116
VoiceStateUpdate(st, m, name, before, after, afk) ==
    IF before = after THEN st
    ELSE
    LET \* previous_channel: looked up, or built and added at once
        chs1 == IF IsNone(before) THEN st.channels
                ELSE IF IsNone(get_channel(st.channels, Val(before)))
                     THEN Persist(st.channels, {ChannelObj(Val(before), afk)})
                     ELSE st.channels
        prev == IF IsNone(before) THEN None ELSE get_channel(chs1, Val(before))
        \* next_channel: looked up, or built and left to the event's add()
        nxt == IF IsNone(after) THEN None
               ELSE IF IsNone(get_channel(chs1, Val(after)))
                    THEN Some(ChannelObj(Val(after), afk))
                    ELSE get_channel(chs1, Val(after))
        st1 == EnsureUser([st EXCEPT !.channels = chs1], m, name)
        e == Row(NextId(st.clock), before, after, Stamp(st.clock), Some(m))
        st2 == addEvent(st1, e, {Val(o) : o \in {prev, nxt} \ {None}})
    IN [st2 EXCEPT !.clock = @ + 1,
                   !.active_users = Counter(@, Bot(m), prev, nxt, before, after, afk)]

\* the connected (member, channel) pairs in the order on_ready visits them:
\* guild.channels by id, channel.members as the client lists them
RECURSIVE Visit(_, _)
Visit(c, left) ==
    IF c > LaterChannel THEN <<>>
    ELSE IF \E m \in left : voice[m] = Some(c)
         THEN LET m == CHOOSE x \in left : voice[x] = Some(c)
              IN <<[member |-> m, channel |-> c]>> \o Visit(c, left \ {m})
         ELSE Visit(c + 1, left)

\* main.py:66-79 for the members found connected, one after the other
RECURSIVE ReadyLoop(_, _, _, _)
ReadyLoop(st, seq, nick, afk) ==
    IF seq = <<>> THEN st
    ELSE LET m == Head(seq).member
             c == Head(seq).channel
             n == IF ~Bot(m) /\ Some(c) # afk THEN st.active_users + 1 ELSE st.active_users
             st1 == EnsureUser(st, m, nick[m])
             join == Row(NextId(st.clock), None, Some(c), Stamp(st.clock), Some(m))
             st2 == addEvent(st1, join, {[id |-> c, is_afk |-> st.channels[c]]})
         IN ReadyLoop([st2 EXCEPT !.clock = @ + 1, !.active_users = n], Tail(seq), nick, afk)

\* on_ready with the reset of main.py:58 left out
ReadyKeepCount(st, nick, afk) ==
    LET chs == Persist(st.channels, {ChannelObj(c, afk) : c \in guild_channels})
    IN ReadyLoop([st EXCEPT !.channels = chs], Visit(1, Members), nick, afk)

\* on_ready(), main.py:55-79
Ready(st, nick, afk) ==
    LET chs == Persist(st.channels, {ChannelObj(c, afk) : c \in guild_channels})
    IN ReadyLoop([st EXCEPT !.channels = chs, !.active_users = 0],
                 Visit(1, Members), nick, afk)

\* the rows of the join event JOIN public.user (db.py:41-43)
Joined(evts, usrs) == {e \in evts : IF IsNone(e.user) THEN FALSE ELSE Val(e.user) \in usrs}

\* DISTINCT ON (handle) ... ORDER BY handle ASC, timestamp DESC: one row of
\* the handle that no row of the handle is later than
LatestRow(evts, h) ==
    LET mine == {e \in evts : e.user = Some(h)}
    IN CHOOSE e \in mine : \A f \in mine : DtLe(f.timestamp, e.timestamp)

\* the same with ORDER BY ... timestamp ASC
EarliestRow(evts, h) ==
    LET mine == {e \in evts : e.user = Some(h)}
    IN CHOOSE e \in mine : \A f \in mine : DtLe(e.timestamp, f.timestamp)

\* get_active_users over the first row of each handle
get_active_users_first(evts, usrs) ==
    LET rows == Joined(evts, usrs)
        handles == {h \in {Val(e.user) : e \in rows} :
                       ~IsNone(EarliestRow(rows, h).nextChannel)}
    IN {h \in usrs : h \in handles}

\* get_active_users(), db.py:37-54
get_active_users(evts, usrs) ==
    LET rows == Joined(evts, usrs)
        handles == {h \in {Val(e.user) : e \in rows} :
                       ~IsNone(LatestRow(rows, h).nextChannel)}
    IN {h \in usrs : h \in handles}

\* User.latest_event, models.py:95-97
latest_event(evts, h) ==
    LET mine == {e \in evts : e.user = Some(h)}
    IN IF mine = {} THEN None
       ELSE Some(CHOOSE e \in mine : \A f \in mine : DtLe(f.timestamp, e.timestamp))

\* main.py:123-124 for the users still to close, one after the other
RECURSIVE CloseLoop(_, _)
CloseLoop(st, left) ==
    IF left = {} THEN st
    ELSE LET h == CHOOSE x \in left : TRUE
             last == Val(latest_event(st.events, h))
             e == Row(NextId(st.clock), last.nextChannel, None, Stamp(st.clock), Some(h))
             st1 == addEvent(st, e, {})
         IN CloseLoop([st1 EXCEPT !.clock = @ + 1], left \ {h})

\* close_all_sessions() closing every user that has an event
CloseEveryUser(st) == CloseLoop(st, {Val(e.user) : e \in Joined(st.events, st.users)})

\* close_all_sessions(), main.py:120-124
CloseAllSessions(st) == CloseLoop(st, get_active_users(st.events, st.users))

Written(st) ==
    /\ users' = st.users
    /\ aliases' = st.aliases
    /\ channels' = st.channels
    /\ events' = st.events
    /\ clock' = st.clock
    /\ active_users' = st.active_users

ApiUnchanged == UNCHANGED <<active_tokens, returned>>

\* main(), main.py:141-145: the coroutines handed to asyncio.gather
Gathered == {"http"}

\* asyncio.run(main())
main ==
    /\ started = {}
    /\ started' = Gathered
    /\ req' = [route |-> "main"]
    /\ resp' = Response("main", 0, "", None)
    /\ ApiUnchanged /\ StoreUnchanged /\ RoundUnchanged /\ GuildUnchanged
    /\ UNCHANGED <<aliases, active_users, phase, clock>>

\* the process is started with its gateway client running (client.start,
\* main.py:143); the module is loaded, active_users = 0 (main.py:52)
client_start ==
    /\ phase = "down"
    /\ phase' = "offline"
    /\ started' = Gathered \cup {"gateway"}
    /\ active_users' = 0
    /\ req' = [route |-> "start"]
    /\ resp' = Response("start", 0, "", None)
    /\ ApiUnchanged /\ StoreUnchanged /\ RoundUnchanged /\ GuildUnchanged
    /\ UNCHANGED <<aliases, clock>>

\* the gateway session is established: on_ready is dispatched
on_ready(nick) ==
    /\ phase = "offline"
    /\ clock + Cardinality({m \in Members : ~IsNone(voice[m])}) <= MaxClock
    /\ phase' = "ready"
    /\ Written(Ready(Store, nick, afk_channel))
    /\ req' = [route |-> "on_ready"]
    /\ resp' = Response("on_ready", 0, "", None)
    /\ ApiUnchanged /\ RoundUnchanged /\ GuildUnchanged
    /\ UNCHANGED started

\* a member's voice state changes and the gateway dispatches
\* on_voice_state_update(member, before, after); after may be the channel
\* the member is in already (mute, deafen)
on_voice_state_update(m, name, after) ==
    /\ phase = "ready"
    /\ voice[m] # after => clock < MaxClock
    /\ voice' = [voice EXCEPT ![m] = after]
    /\ Written(VoiceStateUpdate(Store, m, name, voice[m], after, afk_channel))
    /\ req' = [route |-> "voice", member |-> m, bot |-> Bot(m), name |-> name,
               before |-> voice[m], after |-> after]
    /\ resp' = Response("voice", 0, "", None)
    /\ ApiUnchanged /\ RoundUnchanged
    /\ after \in {None} \cup {Some(c) : c \in guild_channels}
    /\ UNCHANGED <<afk_channel, guild_channels, phase, started>>

\* the process exits: the atexit hook close_all_sessions runs
close_all_sessions ==
    /\ phase \in {"offline", "ready"}
    /\ clock + Cardinality(get_active_users(events, users)) <= MaxClock
    /\ phase' = "down"
    /\ Written(CloseAllSessions(Store))
    /\ req' = [route |-> "shutdown"]
    /\ resp' = Response("shutdown", 0, "", Some(get_active_users(events, users)))
    /\ ApiUnchanged /\ RoundUnchanged /\ GuildUnchanged
    /\ UNCHANGED started

\* the gateway session is lost
Disconnect ==
    /\ phase = "ready"
    /\ phase' = "offline"
    /\ req' = [route |-> "disconnect"]
    /\ resp' = Response("disconnect", 0, "", None)
    /\ ApiUnchanged /\ StoreUnchanged /\ RoundUnchanged /\ GuildUnchanged
    /\ UNCHANGED <<aliases, active_users, clock, started>>

\* a member's voice state changes while no gateway session delivers it
MoveUnseen(m, after) ==
    /\ phase # "ready"
    /\ voice[m] # after
    /\ after \in {None} \cup {Some(c) : c \in guild_channels}
    /\ voice' = [voice EXCEPT ![m] = after]
    /\ req' = [route |-> "guild"]
    /\ resp' = Response("guild", 0, "", None)
    /\ ApiUnchanged /\ StoreUnchanged /\ RoundUnchanged /\ IngestUnchanged
    /\ UNCHANGED <<afk_channel, guild_channels>>

\* the guild's AFK channel setting is cleared
ClearAfk ==
    /\ afk_channel = FirstAfk
    /\ afk_channel' = None
    /\ req' = [route |-> "guild"]
    /\ resp' = Response("guild", 0, "", None)
    /\ ApiUnchanged /\ StoreUnchanged /\ RoundUnchanged /\ IngestUnchanged
    /\ UNCHANGED <<voice, guild_channels>>

\* a voice channel is created in the guild
CreateChannel ==
    /\ LaterChannel \notin guild_channels
    /\ guild_channels' = guild_channels \cup {LaterChannel}
    /\ req' = [route |-> "guild"]
    /\ resp' = Response("guild", 0, "", None)
    /\ ApiUnchanged /\ StoreUnchanged /\ RoundUnchanged /\ IngestUnchanged
    /\ UNCHANGED <<voice, afk_channel>>

----------------------------------------------------------------------------
(* A failing write (db.py:31-32 raises) inside on_voice_state_update.      *)

\* the add() calls of the handler, in the order it makes them
FailPoints == {"channel", "user", "alias", "event"}

\* the handler reaches the add() at point p: the channel of before has no
\* row, the member has no row, the display name is not stored, or the event
Attempts(st, m, name, before, p) ==
    IF p = "channel"
    THEN ~IsNone(before) /\ (IF IsNone(before) THEN FALSE
                             ELSE IsNone(get_channel(st.channels, Val(before))))
    ELSE IF p = "user" THEN IsNone(get_user(st.users, m))
    ELSE IF p = "alias"
         THEN LET names == AliasNames(st.aliases, m) IN names = {} \/ name \notin names
    ELSE TRUE

\* the handler as one transaction: a failing add() takes back the rows of
\* the add() calls before it
VoiceStateUpdateFailsAtomic(st, m, name, before, after, afk, p) ==
    [st EXCEPT !.clock = @ + 1]

\* on_voice_state_update(member, before, after) when the add() at point p
\* raises: the add() calls before it have committed, the exception leaves
\* the handler before main.py:107-116; the clock has moved on
VoiceStateUpdateFails(st, m, name, before, after, afk, p) ==
    LET chs1 == IF IsNone(before) THEN st.channels
                ELSE IF IsNone(get_channel(st.channels, Val(before)))
                     THEN Persist(st.channels, {ChannelObj(Val(before), afk)})
                     ELSE st.channels
        st1 == [st EXCEPT !.channels = chs1]
        st2 == [st1 EXCEPT !.users = @ \cup {m}]
        st3 == EnsureUser(st1, m, name)
        left == IF p = "channel" THEN st
                ELSE IF p = "user" THEN st1
                ELSE IF p = "alias" THEN st2
                ELSE st3
    IN [left EXCEPT !.clock = @ + 1]

\* a voice-state change whose handler fails at the add() of point p; the
\* session is left with a rolled-back transaction and rollback() is never
\* called, so every later use of the session raises
on_voice_state_update_fails(m, name, after, p) ==
    /\ phase = "ready"
    /\ voice[m] # after
    /\ clock < MaxClock
    /\ after \in {None} \cup {Some(c) : c \in guild_channels}
    /\ Attempts(Store, m, name, voice[m], p)
    /\ voice' = [voice EXCEPT ![m] = after]
    /\ Written(VoiceStateUpdateFails(Store, m, name, voice[m], after, afk_channel, p))
    /\ phase' = "failed"
    /\ req' = [route |-> "voice_failed", member |-> m, bot |-> Bot(m), name |-> name,
               before |-> voice[m], after |-> after, point |-> p]
    /\ resp' = Response("voice_failed", 0, "", None)
    /\ ApiUnchanged /\ RoundUnchanged
    /\ UNCHANGED <<afk_channel, guild_channels, started>>

\* a voice-state change dispatched after a failed write: get_channel raises
\* at main.py:90 or 96 unless the handler returns at main.py:85
on_voice_state_update_raises(m, after) ==
    /\ phase = "failed"
    /\ voice[m] # after
    /\ after \in {None} \cup {Some(c) : c \in guild_channels}
    /\ voice' = [voice EXCEPT ![m] = after]
    /\ req' = [route |-> "voice_raised", member |-> m]
    /\ resp' = Response("voice_raised", 0, "", None)
    /\ ApiUnchanged /\ StoreUnchanged /\ RoundUnchanged /\ IngestUnchanged
    /\ UNCHANGED <<afk_channel, guild_channels>>

\* the process exits after a failed write: get_active_users raises at
\* main.py:122 and the hook writes nothing
close_all_sessions_raises ==
    /\ phase = "failed"
    /\ phase' = "down"
    /\ req' = [route |-> "shutdown_raised"]
    /\ resp' = Response("shutdown_raised", 0, "", None)
    /\ ApiUnchanged /\ StoreUnchanged /\ RoundUnchanged /\ GuildUnchanged
    /\ UNCHANGED <<aliases, active_users, clock, started>>

----------------------------------------------------------------------------
(* Inputs of the model.                                                    *)

Handles == {"alice", "bob"}

\* channel 1 is a voice channel, channel 2 the guild's AFK channel
ChannelRows == (1 :> FALSE) @@ (2 :> TRUE)

T_2355 == DT(2024, 2, 29, 23, 55, 0)
T_0005 == DT(2024, 3, 1, 0, 5, 0)
T_0010 == DT(2024, 3, 1, 0, 10, 0)
T_001030 == DT(2024, 3, 1, 0, 10, 30)
T_0015 == DT(2024, 3, 1, 0, 15, 0)

\* rows the curve is run on: opens, closes (to nothing, to AFK) and a
\* legacy row with the -1 sentinel
GraphTransitions ==
    { <<None, Some(1)>>, <<Some(1), None>>, <<Some(1), Some(2)>>, <<Some(-1), Some(1)>> }

GraphRows ==
    {Row(id, tr[1], tr[2], ts, Some("alice")) :
        id \in EventIds, tr \in GraphTransitions, ts \in {T_0005, T_001030, T_0015}}

\* rows the classification is run on: every pair of "no channel", the
\* voice channel and the AFK channel, all in one 10-minute step
Endpoints == {None, Some(1), Some(2)}

ClassifyRows ==
    {Row(id, prev, nxt, T_0005, u) :
        id \in EventIds, prev \in Endpoints, nxt \in Endpoints, u \in {None, Some("alice")}}

GraphStarts == {None, JunkText, IsoText(T_0010)}
GraphEnds == {None, EmptyText, JunkText, IsoText(T_0010)}
GraphBounds == {None, IsoText(T_0010)}

\* rows the matrix is run on: users and dates
MonthRows ==
    {Row(id, None, Some(1), ts, u) :
        id \in EventIds, u \in {None, Some("alice"), Some("bob")},
        ts \in {DT(2024, 2, 1, 12, 0, 0), T_2355, T_0005}}

Years == {0, 2023, 2024, 9999}
Months == {0, 2, 3, 12, 13}

\* datetimes the rounding helpers are run on
RoundInputs ==
    {DT(2024, md[1], md[2], h, mi, s) :
        md \in {<<2, 29>>, <<3, 1>>, <<12, 31>>}, h \in {0, 23}, mi \in 0..59, s \in {0, 30, 33}}

----------------------------------------------------------------------------
(* Specifications.                                                         *)

Init ==
    /\ active_tokens = {}
    /\ returned = {}
    /\ users = Handles
    /\ channels = ChannelRows
    /\ events = {}
    /\ req = [route |-> "none"]
    /\ resp = Response("none", 0, "", None)
    /\ dtIn = None
    /\ dtFloor = None
    /\ dtCeil = None
    /\ aliases = {}
    /\ active_users = 0
    /\ voice = [m \in Members |-> None]
    /\ afk_channel = FirstAfk
    /\ guild_channels = FirstChannels
    /\ phase = "down"
    /\ clock = 0
    /\ started = {}

\* the HTTP surface
Next ==
    \/ \E p \in PasswordInputs, t \in Tokens : Login(p, t)
    \/ \E x \in HeaderValues : GetUsers(x)
    \/ \E x \in HeaderValues, y \in Years, m \in Months : GetActivityMonth(x, y, m)
    \/ \E x \in HeaderValues, s \in GraphStarts, e \in GraphEnds : GetActivityGraph(x, s, e)
    \/ health_check

Spec == Init /\ [][Next]_vars

\* the curve over a growing store
NextGraph ==
    \/ \E e \in GraphRows : RecordEvent(e)
    \/ Login(Some("hunter2"), 1)
    \/ \E s \in GraphBounds, e \in GraphBounds : GetActivityGraph(Some(1), s, e)

SpecGraph == Init /\ [][NextGraph]_vars

\* the matrix over a growing store
NextMonth ==
    \/ \E e \in MonthRows : RecordEvent(e)
    \/ Login(Some("hunter2"), 1)
    \/ \E y \in Years, m \in Months : GetActivityMonth(Some(1), y, m)

SpecMonth == Init /\ [][NextMonth]_vars

\* the classification of the curve over a growing store
NextClassify ==
    \/ \E e \in ClassifyRows : RecordEvent(e)
    \/ Login(Some("hunter2"), 1)
    \/ GetActivityGraph(Some(1), None, None)

SpecClassify == Init /\ [][NextClassify]_vars

\* the rounding helpers on their own
InitRound ==
    /\ Init!1 /\ Init!2 /\ Init!3 /\ Init!4 /\ Init!5 /\ Init!6 /\ Init!7
    /\ dtIn \in {Some(t) : t \in RoundInputs}
    /\ dtFloor = None
    /\ dtCeil = None
    /\ Init!11 /\ Init!12 /\ Init!13 /\ Init!14 /\ Init!15 /\ Init!16 /\ Init!17 /\ Init!18

Round ==
    /\ IsNone(dtFloor)
    /\ dtFloor' = Some(floor_to_10_minutes(Val(dtIn)))
    /\ dtCeil' = Some(ceil_to_10_minutes(Val(dtIn)))
    /\ UNCHANGED <<active_tokens, returned, users, channels, events, req, resp, dtIn>>
    /\ GuildUnchanged /\ IngestUnchanged

NextRound == Round

SpecRound == InitRound /\ [][NextRound]_vars

\* process start as main() performs it, then the HTTP surface
NextBoot ==
    \/ main
    \/ "http" \in started /\ Next

SpecBoot == Init /\ [][NextBoot]_vars

\* the write side: a fresh database, the guild and the tracker process
InitIngest ==
    /\ Init!1 /\ Init!2
    /\ users = {}
    /\ channels = <<>>
    /\ Init!5 /\ Init!6 /\ Init!7 /\ Init!8 /\ Init!9 /\ Init!10
    /\ Init!11 /\ Init!12 /\ Init!13 /\ Init!14 /\ Init!15 /\ Init!16 /\ Init!17 /\ Init!18

NextIngest ==
    \/ client_start
    \/ \E nick \in Nicks : on_ready(nick)
    \/ \E m \in Members : \E after \in VoiceStates(m), name \in DisplayNames(m) :
          on_voice_state_update(m, name, after)
    \/ close_all_sessions
    \/ Disconnect
    \/ \E m \in Members : \E after \in VoiceStates(m) : MoveUnseen(m, after)
    \/ ClearAfk
    \/ CreateChannel

SpecIngest == InitIngest /\ [][NextIngest]_vars

\* the write side with writes that fail
NextFail ==
    \/ client_start
    \/ \E nick \in Nicks : on_ready(nick)
    \/ \E m \in Members : \E after \in VoiceStates(m), name \in DisplayNames(m) :
          on_voice_state_update(m, name, after)
    \/ \E m \in Members : \E after \in VoiceStates(m), name \in DisplayNames(m) :
          \E p \in FailPoints : on_voice_state_update_fails(m, name, after, p)
    \/ \E m \in Members : \E after \in VoiceStates(m) : on_voice_state_update_raises(m, after)
    \/ close_all_sessions
    \/ close_all_sessions_raises
    \/ CreateChannel

SpecFail == InitIngest /\ [][NextFail]_vars

----------------------------------------------------------------------------
(* Properties.                                                             *)

Protected == {"users", "month", "graph"}

\* the last operation was a protected request that passed the guard
PassedGuard == req.route \in Protected /\ resp # Unauthorized(req.route)

\* C1: a protected request is let through if and only if its X-Auth value
\* is a token that an earlier successful login returned; every other
\* request, one without the header included, gets 401 "not authorized"
C1_AuthorizedIffReturned ==
    req.route \in Protected =>
        /\ PassedGuard <=> (~IsNone(req.x_auth) /\ Val(req.x_auth) \in returned)
        /\ ~PassedGuard => (resp.status = 401 /\ resp.detail = "not authorized")

\* C1 witness: a request carrying a returned token passed, another token is still unissued
C1_Witness ==
    /\ req.route = "users" /\ resp.status = 200
    /\ Val(req.x_auth) \in returned
    /\ returned # Tokens

\* C2: the active-token set only grows, and a protected request carrying a
\* token that a login has returned is authorized whatever happened since
C2_TokensNeverRevoked ==
    [][/\ active_tokens \subseteq active_tokens'
       /\ \A t \in returned :
            (req'.route \in Protected /\ req'.x_auth = Some(t))
                => resp' # Unauthorized(req'.route)]_vars

\* C2 witness: the first token still opens a route after a second login
C2_Witness ==
    /\ req.route = "graph" /\ resp.status = 200
    /\ Cardinality(active_tokens) >= 2

\* C3: a login whose password's digest differs from MD5_PASSWORD answers
\* 401 "wrong password" with no token and leaves the token set as it was
C3_WrongPasswordRejected ==
    [][(/\ req'.route = "login"
        /\ ~IsNone(req'.password)
        /\ Md5Hex(Val(req'.password)) # MD5_PASSWORD)
       => (/\ resp' = Response("login", 401, "wrong password", None)
           /\ active_tokens' = active_tokens
           /\ returned' = returned)]_vars

\* C3 witness: a rejected login while a token is active
C3_Witness ==
    /\ req.route = "login" /\ resp.status = 401
    /\ req.password = Some("guess")
    /\ active_tokens # {}

\* the last operation was a curve request that was answered with a list
GraphOk == req.route = "graph" /\ resp.status = 200

\* the signals the last curve request selected
ReqSignals ==
    Signals(channels, SelectEvents(events, Parsed(req.start), Parsed(req.end)))

CharDigit(c) == CHOOSE d \in 0..9 : DigitChar(d) = c
IsDigitChar(c) == \E d \in 0..9 : DigitChar(d) = c

\* t reads "HH:MM" with HH < 24 and MM < 60
IsClockText(t) ==
    /\ Len(t) = 5 /\ t[3] = ":"
    /\ \A k \in {1, 2, 4, 5} : IsDigitChar(t[k])
    /\ CharDigit(t[1]) * 10 + CharDigit(t[2]) < 24
    /\ CharDigit(t[4]) * 10 + CharDigit(t[5]) < 60

\* the minute of the day that "HH:MM" names
ClockMinutes(t) ==
    (CharDigit(t[1]) * 10 + CharDigit(t[2])) * 60 + CharDigit(t[4]) * 10 + CharDigit(t[5])

\* the body is the full day: 144 labels "00:00", "00:10", ..., "23:50" in order
FullDay(body) ==
    /\ Len(body) = 144
    /\ \A k \in 1..Len(body) :
         IsClockText(body[k].time) /\ ClockMinutes(body[k].time) = (k - 1) * 10

\* C4 as stated: every output of the curve has the 144 ordered labels
C4_Original == GraphOk => FullDay(resp.body)

\* C4 amended: the curve's output is the empty list when no signal is
\* selected, and otherwise has exactly 144 entries labelled "00:00" to
\* "23:50" in steps of 10 minutes, unique and in order
C4_EmptyOrFullDay ==
    GraphOk => IF ReqSignals = {} THEN resp.body = <<>> ELSE FullDay(resp.body)

\* C4 witness: a curve computed from a stored signal
C4_Witness == GraphOk /\ ReqSignals # {} /\ Len(resp.body) = 144

\* C5: in slot i of the output, hour = i div 6 and minute = (i mod 6) * 10
C5_HourMinuteOfSlot ==
    GraphOk =>
        \A k \in 1..Len(resp.body) :
            /\ resp.body[k].hour = (k - 1) \div 6
            /\ resp.body[k].minute = ((k - 1) % 6) * 10

\* the selected events are one open at 00:05 and its close at 00:15
C6_Scenario ==
    /\ GraphOk /\ IsNone(req.start) /\ IsNone(req.end)
    /\ \E a, b \in events :
         /\ {e \in events : e.id > 3941} = {a, b}
         /\ a.prevChannel = None /\ a.nextChannel = Some(1) /\ a.timestamp = T_0005
         /\ b.prevChannel = Some(1) /\ b.nextChannel = None /\ b.timestamp = T_0015
         /\ a.user = b.user

One == [num |-> 1, den |-> 1]
Zero == [num |-> 0, den |-> 1]

\* C6 as stated: the 00:00 and the 00:10 slot both have peak 1 and average
\* 1, every other slot has peak 0
C6_Original ==
    C6_Scenario =>
        /\ resp.body[1].peakUsers = 1 /\ resp.body[1].averageUsers = One
        /\ resp.body[2].peakUsers = 1 /\ resp.body[2].averageUsers = One
        /\ \A k \in 3..Len(resp.body) : resp.body[k].peakUsers = 0

\* opens minus closes among the signals with timestamp <= t
CountAt(sigs, t) ==
    Cardinality({e \in sigs : DtLe(e.timestamp, t) /\ Delta(channels, e) = 1})
    - Cardinality({e \in sigs : DtLe(e.timestamp, t) /\ Delta(channels, e) = -1})

\* the earliest and the latest timestamp of a non-empty set of signals
FirstTs(sigs) == CHOOSE t \in {e.timestamp : e \in sigs} : \A e \in sigs : DtLe(t, e.timestamp)
LastTs(sigs) == CHOOSE t \in {e.timestamp : e \in sigs} : \A e \in sigs : DtLe(e.timestamp, t)

\* C6 amended: in the scenario the 00:00 slot has peak 1 and average 1 and
\* every other slot, the 00:10 slot included, has peak 0 and average 0; in
\* general a step of the sweep samples the opens minus the closes whose
\* timestamp is <= the step's end, so the step in which a close falls does
\* not count that user (stated for a window within one day, where a slot
\* holds one sample)
C6_SampleAtStepEnd ==
    /\ C6_Scenario =>
        /\ resp.body[1].peakUsers = 1 /\ resp.body[1].averageUsers = One
        /\ \A k \in 2..Len(resp.body) :
             resp.body[k].peakUsers = 0 /\ resp.body[k].averageUsers = Zero
    /\ (GraphOk /\ ReqSignals # {}) =>
        LET first == floor_to_10_minutes(FirstTs(ReqSignals))
            last  == ceil_to_10_minutes(LastTs(ReqSignals))
        IN DateOf(first) = DateOf(AddMinutes(last, 10)) =>
            \A k \in 1..Len(resp.body) :
                LET step == DT(first.y, first.mo, first.d, (k - 1) \div 6, ((k - 1) % 6) * 10, 0)
                    stop == AddMinutes(step, 10)
                IN resp.body[k].peakUsers =
                     IF DtLe(first, step) /\ DtLe(stop, last)
                     THEN CountAt(ReqSignals, stop) ELSE 0

\* C6 witness: the scenario, answered
C6_Witness == C6_Scenario /\ Len(resp.body) = 144

\* C7: the window covers every signal: both ends on 10-minute marks,
\* floor <= t < floor + 10 min and t <= ceil < t + 10 min
C7_WindowCoversSignal ==
    ~IsNone(dtFloor) =>
        LET t == Val(dtIn)
            f == Val(dtFloor)
            c == Val(dtCeil)
        IN /\ f.s = 0 /\ f.mi % 10 = 0
           /\ c.s = 0 /\ c.mi % 10 = 0
           /\ DtLe(f, t) /\ DtLt(t, AddMinutes(f, 10))
           /\ DtLe(t, c) /\ DtLt(c, AddMinutes(t, 10))

\* C8: the curve equals the curve of the store without the events of id <= 3941
C8_LegacyExcluded ==
    GraphOk =>
        resp.body = ActivityGraph({e \in events : e.id > 3941}, channels,
                                  Parsed(req.start), Parsed(req.end))

\* C8 witness: a curve from a store that holds a legacy row which would be a signal
C8_Witness ==
    /\ GraphOk /\ Len(resp.body) = 144
    /\ \E e \in SelectEventsAnyId(events, Parsed(req.start), Parsed(req.end)) :
         e.id <= 3941 /\ Delta(channels, e) # 0

\* the last operation was a matrix request carrying an active token
MonthAuthorized ==
    /\ req.route = "month"
    /\ ~IsNone(req.x_auth) /\ Val(req.x_auth) \in active_tokens

\* a month whose first day and whose successor's first day are dates of the
\* calendar datetime.date keeps (years 1 to 9999)
ValidYearMonth(y, m) ==
    /\ 1 <= m /\ m <= 12
    /\ 1 <= y /\ y <= 9999
    /\ ~(y = 9999 /\ m = 12)

\* "2024-02-29"
Feb29Text == <<"2", "0", "2", "4", "-", "0", "2", "-", "2", "9">>

\* C9: for a valid (year, month) the matrix has one entry per calendar
\* date of the month (29 for February 2024); every date's mapping has as
\* keys the handles of the users with an event in the month, and the value
\* for (date, handle) is true iff the user has an event on that date
C9_MatrixOfMonth ==
    (MonthAuthorized /\ ValidYearMonth(req.year, req.month)) =>
        LET y      == req.year
            m      == req.month
            days   == DaysInMonth(y, m)
            active == {h \in users : \E e \in events :
                          e.user = Some(h) /\ e.timestamp.y = y /\ e.timestamp.mo = m}
        IN /\ resp.status = 200
           /\ Cardinality(DOMAIN resp.body) = days
           /\ (y = 2024 /\ m = 2) =>
                (Cardinality(DOMAIN resp.body) = 29 /\ Feb29Text \in DOMAIN resp.body)
           /\ \A d \in 1..days :
                LET key == isoformat(Date(y, m, d))
                IN /\ key \in DOMAIN resp.body
                   /\ DOMAIN resp.body[key] = active
                   /\ \A h \in active :
                        resp.body[key][h] <=>
                            \E e \in events :
                                e.user = Some(h) /\ DateOf(e.timestamp) = Date(y, m, d)

\* C9 witness: February 2024 with alice active and bob, who has an event
\* in March only, under no date
C9_Witness ==
    /\ MonthAuthorized /\ req.year = 2024 /\ req.month = 2 /\ resp.status = 200
    /\ DOMAIN resp.body[Feb29Text] = {"alice"}
    /\ resp.body[Feb29Text]["alice"]
    /\ \E e \in events : e.user = Some("bob") /\ e.timestamp.mo = 3

\* C10: an authenticated matrix request with month outside 1..12 is
\* answered 400 "Invalid month" with no matrix, not 500
C10_InvalidMonth ==
    (MonthAuthorized /\ ~(1 <= req.month /\ req.month <= 12)) =>
        resp = Response("month", 400, "Invalid month", None)

\* C10 witness: month 13 refused over a store that holds events
C10_Witness ==
    /\ MonthAuthorized /\ req.month = 13 /\ resp.status = 400
    /\ events # {}

----------------------------------------------------------------------------
(* Properties of the write side.                                           *)

\* the events of handle h
EventsOf(h) == {e \in events : e.user = Some(h)}

\* h has an event, and an event of h that none of h's events is later than
\* names a channel the user went to
MostRecentOpen(h) ==
    \E e \in EventsOf(h) :
        /\ ~IsNone(e.nextChannel)
        /\ \A f \in EventsOf(h) : DtLe(f.timestamp, e.timestamp)

\* C11: whatever has been recorded, get_active_users returns exactly the
\* users that have an event and whose most recent event by timestamp has a
\* nextChannel; users without events and users whose most recent event has
\* none are left out.
C11_ActiveUsers ==
    get_active_users(events, users) = {h \in users : MostRecentOpen(h)}

\* one user is returned while another, whose last event closed the session,
\* is not
C11_Witness ==
    /\ get_active_users(events, users) # {}
    /\ \E h \in users \ get_active_users(events, users) : EventsOf(h) # {}
    /\ \E h \in Members : EventsOf(h) = {}

\* the most recent event of handle h in the store
MostRecent(h) == CHOOSE e \in EventsOf(h) : \A f \in EventsOf(h) : DtLe(f.timestamp, e.timestamp)

\* the step is a process exit
ShutdownStep == phase # "down" /\ phase' = "down"

\* C12: at shutdown exactly one Event is appended for every active user,
\* with prevChannel the nextChannel of that user's most recent event,
\* nextChannel absent and that user; none is appended for any other user,
\* and no stored Event is changed.
C12_ClosingEvents ==
    [][ShutdownStep =>
          LET new == events' \ events
              active == {h \in users : MostRecentOpen(h)}
          IN /\ events \subseteq events'
             /\ \A h \in active :
                   /\ Cardinality({e \in new : e.user = Some(h)}) = 1
                   /\ \A e \in new :
                         e.user = Some(h) =>
                            /\ e.prevChannel = MostRecent(h).nextChannel
                            /\ IsNone(e.nextChannel)
             /\ \A e \in new : \E h \in active : e.user = Some(h)]_vars

\* a shutdown has closed the session of alice, who had moved to channel 3;
\* hers is the only event it wrote
C12_Witness ==
    /\ req.route = "shutdown"
    /\ Val(resp.body) = {"alice"}
    /\ Cardinality(events) = 3
    /\ \E e \in events :
          /\ e.user = Some("alice") /\ e.prevChannel = Some(3) /\ IsNone(e.nextChannel)
          /\ e = MostRecent("alice")

\* C13: once the process has been started, both the HTTP API service and
\* the gateway connection of the ingestion side are running.
C13_BothServicesStarted ==
    started # {} => {"http", "gateway"} \subseteq started

\* the step is a handled voice-state change between two different states
VoiceStep == req'.route = "voice" /\ req'.before # req'.after

\* the guild's AFK channel is the channel c
IsAfkChannel(c) == ~IsNone(c) /\ c = afk_channel

\* the guild has a channel c and it is not the AFK channel
IsPlainChannel(c) == ~IsNone(c) /\ c # afk_channel

\* C14: a voice-state change raises the counter by one exactly when the
\* member is not a bot and goes from no channel or the AFK channel into a
\* channel that is not the AFK channel.
C14_IncrementOnJoin ==
    [][VoiceStep =>
          ((active_users' = active_users + 1) <=>
              /\ ~req'.bot
              /\ IsNone(req'.before) \/ IsAfkChannel(req'.before)
              /\ IsPlainChannel(req'.after))]_vars

\* C15: a voice-state change lowers the counter by one, not below zero,
\* exactly when the member is not a bot and goes from a channel that is not
\* the AFK channel into no channel or the AFK channel; a change that starts
\* in the AFK channel or in no channel, a change between two channels that
\* are not the AFK channel, and a change of a bot never lower it.
C15_DecrementOnLeave ==
    [][VoiceStep =>
          LET leaves == /\ ~req'.bot
                        /\ IsPlainChannel(req'.before)
                        /\ IsNone(req'.after) \/ IsAfkChannel(req'.after)
          IN /\ leaves => active_users' = Max(0, active_users - 1)
             /\ ~leaves => active_users' >= active_users]_vars

\* the non-bot members connected to a voice channel that is not the AFK channel
Present == {m \in Members : ~Bot(m) /\ IsPlainChannel(voice[m])}

\* C16: after on_ready and any voice-state changes handled since, with the
\* guild's AFK channel as it was, the counter equals the number of non-bot
\* members connected to a voice channel that is not the AFK channel.
C16_CounterIsPresence ==
    (phase = "ready" /\ afk_channel = FirstAfk) => active_users = Cardinality(Present)

\* C17: when on_ready has run, the counter equals the number of connected
\* (member, voice channel) pairs whose member is not a bot and whose channel
\* is not the AFK channel, whatever it was before, also when on_ready runs
\* again after a reconnect.
C17_ReadyCounts ==
    req.route = "on_ready" => active_users = Cardinality(Present)

\* on_ready has run again after a reconnect: alice, counted when her join
\* was recorded, left while the session was lost, and the counter is 0
C17_Witness ==
    /\ req.route = "on_ready"
    /\ "alice" \in get_active_users(events, users)
    /\ IsNone(voice["alice"])
    /\ active_users = 0

\* the step is a dispatched voice-state update that keeps the channel
SameChannelStep == req'.route = "voice" /\ req'.before = req'.after

\* C18: on_voice_state_update appends exactly one Event, with prevChannel
\* before.channel or absent, nextChannel after.channel or absent and the
\* member as user, when the two channels differ; when they are equal it
\* writes no Channel, User, Alias or Event row and leaves the counter alone.
C18_OneEventPerChange ==
    [][/\ VoiceStep =>
             /\ events \subseteq events'
             /\ Cardinality(events' \ events) = 1
             /\ \A e \in events' \ events :
                   /\ e.prevChannel = req'.before
                   /\ e.nextChannel = req'.after
                   /\ e.user = Some(req'.member)
       /\ SameChannelStep =>
             UNCHANGED <<channels, users, aliases, events, active_users>>]_vars

\* alice's join was recorded as one Event; then an update that keeps her in
\* the channel was dispatched under a display name not yet stored, and
\* nothing was written
C18_Witness ==
    /\ req.route = "voice" /\ req.member = "alice"
    /\ req.before = req.after /\ req.after = Some(1)
    /\ req.name = "Ally" /\ <<"Ally", "alice">> \notin aliases
    /\ events = {Row(NextId(0), None, Some(1), Stamp(0), Some("alice"))}
    /\ active_users = 1

\* c is absent or the id of a stored Channel row
ChannelStored(c) == IF IsNone(c) THEN TRUE ELSE Val(c) \in DOMAIN channels

\* C19: after any sequence of on_ready, on_voice_state_update and shutdown
\* the store is referentially intact: the prevChannel and nextChannel of
\* every Event are absent or ids of Channel rows, the user of every Event
\* and the handle of every Alias are handles of User rows; a change into a
\* channel never seen before leaves a Channel row for it.
C19_ReferentiallyIntact ==
    /\ \A e \in events :
          /\ ChannelStored(e.prevChannel)
          /\ ChannelStored(e.nextChannel)
          /\ IF IsNone(e.user) THEN TRUE ELSE Val(e.user) \in users
    /\ \A a \in aliases : a[2] \in users

\* alice has gone into the channel the guild got later; the event of that
\* change is the only one that names it, and the channel has its row
C19_Witness ==
    /\ req.route = "voice" /\ req.after = Some(LaterChannel)
    /\ Cardinality({e \in events : Some(LaterChannel) \in {e.prevChannel, e.nextChannel}}) = 1
    /\ LaterChannel \in DOMAIN channels
    /\ <<"Ally", "alice">> \in aliases

----------------------------------------------------------------------------
(* Properties of the curve's classification.                               *)

\* what the stored rows say of an endpoint: no channel, an AFK channel or
\* an ordinary channel
Kind(c) == IF IsNone(c) THEN "none" ELSE IF is_afk(channels, c) THEN "afk" ELSE "plain"

\* the signal of an event by the kinds of its endpoints
Expected(e) ==
    IF Kind(e.prevChannel) \in {"none", "afk"} /\ Kind(e.nextChannel) = "plain" THEN 1
    ELSE IF Kind(e.prevChannel) = "plain" /\ Kind(e.nextChannel) \in {"none", "afk"} THEN -1
    ELSE 0

\* the events an unbounded curve request selects
Selected == SelectEvents(events, None, None)

\* C20: the curve turns each selected Event into a signal by the stored AFK
\* flags of its endpoints: +1 exactly when it goes from no channel or an AFK
\* channel into a non-AFK channel, -1 exactly when it goes from a non-AFK
\* channel into no channel or an AFK channel, no signal otherwise. With all
\* events in one 10-minute step, the curve is empty when no event is a
\* signal and its first slot samples the sum of the signals otherwise.
C20_SignalByStoredFlags ==
    /\ \A e \in Selected : Delta(channels, e) = Expected(e)
    /\ (GraphOk /\ \A e \in Selected : e.timestamp = T_0005) =>
          IF \A e \in Selected : Expected(e) = 0
          THEN resp.body = <<>>
          ELSE /\ Len(resp.body) = SlotCount
               /\ resp.body[1].peakUsers =
                     Cardinality({e \in Selected : Expected(e) = 1})
                     - Cardinality({e \in Selected : Expected(e) = -1})

\* a curve over one event from the AFK channel into the voice channel and
\* one from no channel into the AFK channel: the first slot samples 1
C20_Witness ==
    /\ GraphOk
    /\ \E a, b \in Selected :
          /\ Selected = {a, b}
          /\ a.prevChannel = Some(2) /\ a.nextChannel = Some(1)
          /\ b.prevChannel = None /\ b.nextChannel = Some(2)
    /\ resp.body[1].peakUsers = 1

----------------------------------------------------------------------------
(* Properties of a failing write.                                          *)

\* the step is a voice-state change whose handler fails at an add()
FailedStep == phase = "ready" /\ phase' = "failed"

\* every row of the store is still there, unchanged
RowsKept ==
    /\ users \subseteq users'
    /\ aliases \subseteq aliases'
    /\ events \subseteq events'
    /\ \A c \in DOMAIN channels : c \in DOMAIN channels' /\ channels'[c] = channels[c]

\* C21: when a write fails partway through the handling of one voice-state
\* change, the rows the earlier add() calls of that handler committed stay
\* (the user when the alias or the event fails, the alias when the event
\* fails), no Event is recorded for the change, the counter keeps the value
\* it had before the handler ran, and nothing is written afterwards to make
\* up for it.
C21_PartialButDurable ==
    [][/\ FailedStep =>
             /\ RowsKept
             /\ events' = events
             /\ active_users' = active_users
             /\ req'.point \in {"alias", "event"} => req'.member \in users'
             /\ req'.point = "event" => <<req'.name, req'.member>> \in aliases'
             /\ req'.point = "user" => req'.member \notin users'
       /\ phase = "failed" =>
             UNCHANGED <<users, aliases, channels, events, active_users>>]_vars

\* alice's first join failed at the add() of the event: her user and alias
\* rows are stored, no event is, and the counter is 0 while she is connected
C21_Witness ==
    /\ req.route = "voice_failed" /\ req.point = "event" /\ req.member = "alice"
    /\ req.before = None /\ req.after = Some(1)
    /\ users = {"alice"} /\ aliases = {<<req.name, "alice">>}
    /\ events = {} /\ active_users = 0
    /\ voice["alice"] = Some(1)

----------------------------------------------------------------------------
(* Properties of the sweep's counter.                                      *)

\* C22: for any stored events and any optional start and end bounds the
\* running counter of the sweep is never negative when a step samples it:
\* every record of the curve has peakUsers >= 0 and averageUsers >= 0.
C22_CounterNeverNegative ==
    GraphOk =>
        \A k \in 1..Len(resp.body) :
            resp.body[k].peakUsers >= 0 /\ resp.body[k].averageUsers.num >= 0

----------------------------------------------------------------------------
(* Properties of a user's history.                                         *)

\* f is the event of e's user that comes just before e
Precedes(f, e) ==
    /\ f.user = e.user /\ f # e /\ DtLe(f.timestamp, e.timestamp)
    /\ \A g \in events :
          (g.user = e.user /\ g # e /\ DtLe(g.timestamp, e.timestamp)) =>
             DtLe(g.timestamp, f.timestamp)

\* C23: after any sequence of on_ready (also repeated, after a reconnect or
\* a restart), voice-state changes and shutdowns, the events of each user in
\* timestamp order form a chain: the first has no prevChannel and every
\* later one has as prevChannel the nextChannel of the one before it.
C23_EventsFormChain ==
    \A e \in events :
        IF \E f \in events : Precedes(f, e)
        THEN \A f \in events : Precedes(f, e) => e.prevChannel = f.nextChannel
        ELSE IsNone(e.prevChannel)

====
